---- MODULE Spec2Model ----
(***************************************************************************)
(* A model of toon-validate: the TOON line parser (toon_parser.rs), the    *)
(* structural validator (validator.rs), the value model (value.rs), the    *)
(* token estimator (token_estimator.rs), format detection (parser.rs) and  *)
(* the check command (check.rs).                                           *)
(*                                                                         *)
(* Text is a sequence of one-character strings, so that trimming, finding  *)
(* a character, slicing and splitting are computed as the code computes    *)
(* them.  A HashMap is a function from keys to values.                     *)
(***************************************************************************)
EXTENDS Integers, Sequences, FiniteSets, TLC

VARIABLES
    lines,      \* ToonParser.lines: the input, split into lines
    current,    \* ToonParser.current: the cursor, 0-based
    stack,      \* the activations of parse_value / parse_table / parse_table_row
    result,     \* what ToonParser::parse has returned, if it has
    spins,      \* loop iterations taken in a row that changed nothing
    text,       \* the argument of a direct parse_simple_value call
    scalar,     \* what that call returned, if it has
    tree,       \* the Value handed to Validator::validate
    verdict,    \* what Validator::validate returned, if it has
    issues,     \* what Validator::check_structure returned, if it has
    report,     \* what check_file printed and the exit code, once it has ended
    tokens,     \* what TokenEstimator::estimate returned, if it has
    breakdown,  \* a TokenBreakdown: estimate_breakdown's, or one built field by field
    sum,        \* what TokenBreakdown::total returned, if it has
    format      \* what Parser::detect_format returned, if it has

vars == <<lines, current, stack, result, spins, text, scalar, tree, verdict,
          issues, report, tokens, breakdown, sum, format>>

parserVars == <<lines, current, stack, result, spins>>
scalarVars == <<text, scalar>>
validatorVars == <<tree, verdict>>
estimatorVars == <<tokens, breakdown, sum>>

----------------------------------------------------------------------------
(* Bounds of the model. *)

\* lines in an input document
MaxLines == 3
\* consecutive no-progress iterations followed before the model stops counting
MaxSpin == 1
\* characters in the argument of a direct parse_simple_value call
MaxLen == 3
\* rows in a hand-built table
MaxRows == 3
\* elements in a hand-built array
MaxItems == 2
\* the value of a field of a TokenBreakdown built field by field
MaxCount == 2

----------------------------------------------------------------------------
(* str primitives *)

\* char::is_whitespace, over the characters the model uses
Whitespace == {" ", "\t", "\n"}

\* the number of leading characters of s that satisfy inSet
RECURSIVE LeadingIn(_, _)
LeadingIn(s, set) ==
    IF s = <<>> \/ Head(s) \notin set THEN 0 ELSE 1 + LeadingIn(Tail(s), set)

RECURSIVE TrailingIn(_, _)
TrailingIn(s, set) ==
    IF s = <<>> \/ s[Len(s)] \notin set THEN 0
    ELSE 1 + TrailingIn(SubSeq(s, 1, Len(s) - 1), set)

trim_start(s) == SubSeq(s, LeadingIn(s, Whitespace) + 1, Len(s))
trim_end(s) == SubSeq(s, 1, Len(s) - TrailingIn(s, Whitespace))
trim(s) == trim_end(trim_start(s))
trim_end_matches(s, c) == SubSeq(s, 1, Len(s) - TrailingIn(s, {c}))

is_empty(s) == Len(s) = 0
starts_with(s, p) == Len(s) >= Len(p) /\ SubSeq(s, 1, Len(p)) = p
ends_with(s, p) == Len(s) >= Len(p) /\ SubSeq(s, Len(s) - Len(p) + 1, Len(s)) = p

\* str::find / str::rfind of one character: the 0-based byte offset, or -1 for None
find(s, c) ==
    IF \E i \in 1..Len(s) : s[i] = c
    THEN (CHOOSE i \in 1..Len(s) : s[i] = c /\ \A j \in 1..(i - 1) : s[j] # c) - 1
    ELSE -1
rfind(s, c) ==
    IF \E i \in 1..Len(s) : s[i] = c
    THEN (CHOOSE i \in 1..Len(s) : s[i] = c /\ \A j \in (i + 1)..Len(s) : s[j] # c) - 1
    ELSE -1

\* &s[a..b] and &s[a..], 0-based and half-open as in Rust
Slice(s, a, b) == SubSeq(s, a + 1, b)
SliceFrom(s, a) == SubSeq(s, a + 1, Len(s))

\* str::split(c): the pieces between the occurrences of c; never empty
RECURSIVE split(_, _)
split(s, c) ==
    LET p == find(s, c) IN
    IF p < 0 THEN <<s>> ELSE <<Slice(s, 0, p)>> \o split(SliceFrom(s, p + 1), c)

Digits == {"0", "1", "2", "3", "4", "5", "6", "7", "8", "9"}
DigitVal(c) == CASE c = "0" -> 0 [] c = "1" -> 1 [] c = "2" -> 2 [] c = "3" -> 3
                 [] c = "4" -> 4 [] c = "5" -> 5 [] c = "6" -> 6 [] c = "7" -> 7
                 [] c = "8" -> 8 [] c = "9" -> 9
AllDigits(s) == \A i \in 1..Len(s) : s[i] \in Digits

RECURSIVE DecimalVal(_)
DecimalVal(s) ==
    IF s = <<>> THEN 0
    ELSE 10 * DecimalVal(SubSeq(s, 1, Len(s) - 1)) + DigitVal(s[Len(s)])

\* str::parse::<usize>: an optional "+", then one or more digits
parse_usize(s) ==
    LET body == IF s # <<>> /\ Head(s) = "+" THEN Tail(s) ELSE s IN
    IF body # <<>> /\ AllDigits(body)
    THEN [ok |-> TRUE, num |-> DecimalVal(body)]
    ELSE [ok |-> FALSE, num |-> 0]

to_ascii_lowercase(c) ==
    CASE c = "I" -> "i" [] c = "N" -> "n" [] c = "F" -> "f" [] c = "T" -> "t"
      [] c = "Y" -> "y" [] c = "A" -> "a" [] OTHER -> c
Lowered(s) == [i \in 1..Len(s) |-> to_ascii_lowercase(s[i])]

\* a finite decimal m * 10^e in lowest form: m not divisible by 10 unless it is 0
RECURSIVE Normal(_, _)
Normal(m, e) ==
    IF m = 0 THEN <<"finite", 0, 0>>
    ELSE IF m % 10 = 0 THEN Normal(m \div 10, e + 1)
    ELSE <<"finite", m, e>>

\* str::parse::<f64>: [sign] (inf | infinity | nan | digits [. digits] [e [sign] digits]),
\* with at least one digit in the mantissa.  The value is kept as an exact decimal.
parse_f64(s) ==
    LET none == [ok |-> FALSE, num |-> <<"nan", 0, 0>>]
        signed == s # <<>> /\ Head(s) \in {"+", "-"}
        sign == IF signed /\ Head(s) = "-" THEN -1 ELSE 1
        body == IF signed THEN Tail(s) ELSE s
        low == Lowered(body)
        epos == IF find(body, "e") >= 0 THEN find(body, "e") ELSE find(body, "E")
        mant == IF epos >= 0 THEN Slice(body, 0, epos) ELSE body
        expo == IF epos >= 0 THEN SliceFrom(body, epos + 1) ELSE <<>>
        esigned == expo # <<>> /\ Head(expo) \in {"+", "-"}
        esign == IF esigned /\ Head(expo) = "-" THEN -1 ELSE 1
        edigits == IF esigned THEN Tail(expo) ELSE expo
        dot == find(mant, ".")
        ipart == IF dot >= 0 THEN Slice(mant, 0, dot) ELSE mant
        fpart == IF dot >= 0 THEN SliceFrom(mant, dot + 1) ELSE <<>>
        e10 == IF epos >= 0 THEN esign * DecimalVal(edigits) ELSE 0
    IN
    IF low \in {<<"i", "n", "f">>, <<"i", "n", "f", "i", "n", "i", "t", "y">>}
        THEN [ok |-> TRUE, num |-> <<"inf", sign, 0>>]
    ELSE IF low = <<"n", "a", "n">>
        THEN [ok |-> TRUE, num |-> <<"nan", 0, 0>>]
    ELSE IF /\ AllDigits(ipart) /\ AllDigits(fpart)
            /\ Len(ipart) + Len(fpart) >= 1
            /\ (epos >= 0 => (edigits # <<>> /\ AllDigits(edigits)))
        THEN [ok |-> TRUE,
              num |-> Normal(sign * DecimalVal(ipart \o fpart), e10 - Len(fpart))]
    ELSE none

----------------------------------------------------------------------------
(* value.rs: the Value union and Table *)

Null == [type |-> "Null"]
Bool(b) == [type |-> "Bool", b |-> b]
Number(n) == [type |-> "Number", n |-> n]
String(s) == [type |-> "String", s |-> s]
Array(items) == [type |-> "Array", items |-> items]
Object(obj) == [type |-> "Object", obj |-> obj]
Table(name, declared_rows, rows) ==
    [type |-> "Table", name |-> name, declared_rows |-> declared_rows, rows |-> rows]

\* HashMap::new and HashMap::insert (a later insert of a key replaces the earlier)
EmptyMap == <<>>
\* a map whose insert keeps the value a key already has
insert_KeepsFirst(m, k, v) == [x \in DOMAIN m \cup {k} |-> IF x \in DOMAIN m THEN m[x] ELSE v]
insert(m, k, v) == [x \in DOMAIN m \cup {k} |-> IF x = k THEN v ELSE m[x]]
\* HashMap::extend: every entry of more is inserted
extend(m, more) ==
    [x \in DOMAIN m \cup DOMAIN more |-> IF x \in DOMAIN more THEN more[x] ELSE m[x]]

\* The call aborted: a slice whose start lies after its end panics.
Panic == [type |-> "Panic"]

----------------------------------------------------------------------------
(* toon_parser.rs: the pure helpers *)

\* the literal texts parse_simple_value compares with
NullText == <<"n", "u", "l", "l">>
TrueText == <<"t", "r", "u", "e">>
FalseText == <<"f", "a", "l", "s", "e">>

\* Whether the text counts as quoted: it starts and ends with the same quote
\* character (a text of one quote character does both).
IsQuoted(trimmed) ==
    \/ starts_with(trimmed, <<"\"">>) /\ ends_with(trimmed, <<"\"">>)
    \/ starts_with(trimmed, <<"'">>) /\ ends_with(trimmed, <<"'">>)

\* &trimmed[1..trimmed.len() - 1]: the slice panics when 1 > len - 1
Unquote(trimmed) ==
    IF 1 > Len(trimmed) - 1 THEN Panic ELSE String(Slice(trimmed, 1, Len(trimmed) - 1))

IsBracketed(trimmed) ==
    starts_with(trimmed, <<"[">>) /\ ends_with(trimmed, <<"]">>)

RECURSIVE parse_simple_value(_)
parse_simple_value(s) ==
    LET trimmed == trim(s) IN
    IF trimmed = NullText THEN Null
    ELSE IF trimmed = TrueText THEN Bool(TRUE)
    ELSE IF trimmed = FalseText THEN Bool(FALSE)
    ELSE IF IsQuoted(trimmed) THEN Unquote(trimmed)
    ELSE IF parse_f64(trimmed).ok THEN Number(parse_f64(trimmed).num)
    ELSE IF IsBracketed(trimmed) THEN
        LET pieces == split(Slice(trimmed, 1, Len(trimmed) - 1), ",")
            items == [i \in 1..Len(pieces) |-> parse_simple_value(trim(pieces[i]))]
        IN  IF \E i \in 1..Len(items) : items[i] = Panic THEN Panic ELSE Array(items)
    ELSE String(trimmed)

count_indent(line) == LeadingIn(line, {" "})

NoMatch == [some |-> FALSE]

\* Some((name, num)) when the first '[' lies before the last ':' and the text
\* between them, less trailing ']', is a count
parse_table_header(line) ==
    LET bracket_pos == find(line, "[")
        colon_pos == rfind(line, ":")
    IN
    IF bracket_pos >= 0 /\ colon_pos >= 0 /\ bracket_pos < colon_pos
    THEN LET name == trim(Slice(line, 0, bracket_pos))
             num_str == trim(trim_end_matches(Slice(line, bracket_pos + 1, colon_pos), "]"))
         IN  IF parse_usize(num_str).ok
             THEN [some |-> TRUE, name |-> name, num |-> parse_usize(num_str).num]
             ELSE NoMatch
    ELSE NoMatch

\* Some((key, value)) when the line holds a ':'; an empty right-hand side is Null
parse_key_value(line) ==
    LET colon_pos == find(line, ":") IN
    IF colon_pos >= 0
    THEN LET key == trim(Slice(line, 0, colon_pos))
             value_str == trim(SliceFrom(line, colon_pos + 1))
         IN  [some |-> TRUE, key |-> key,
              value |-> IF is_empty(value_str) THEN Null ELSE parse_simple_value(value_str)]
    ELSE NoMatch

\* trimmed.is_empty() || trimmed.starts_with('#')
IsBlankOrComment(trimmed) == is_empty(trimmed) \/ starts_with(trimmed, <<"#">>)

\* trimmed.starts_with("- ")
IsRowMarker(trimmed) == starts_with(trimmed, <<"-", " ">>)

----------------------------------------------------------------------------
(* A direct call of parse_simple_value on every short text.  *)

ScalarAlphabet == {"\"", "'", "[", "]", ",", "1", "a", " "}
ShortTexts == UNION {[1..n -> ScalarAlphabet] : n \in 0..MaxLen}
WordTexts ==
    { NullText, TrueText, FalseText,
      <<"\"">> \o NullText \o <<"\"">>, <<"'">> \o TrueText \o <<"'">>,
      <<"\"", "4", "2", "\"">>, <<"4", "2">>, <<"-", "1", ".", "5", "0">>,
      <<"1", "e", "2">>, <<"N", "a", "N">>, <<"[", "1", ",", " ", "t", "r", "u", "e", "]">>,
      <<"\"", "[", "1", "]", "\"">>, <<" ", "n", "u", "l", "l", "\t">>,
      <<"n", "u", "l", "l", "s">>, <<"T", "r", "u", "e">> }
ScalarTexts == ShortTexts \cup WordTexts

NotCalled == [type |-> "NotCalled"]

ScalarInit ==
    /\ text \in ScalarTexts
    /\ scalar = NotCalled

CallParseSimpleValue ==
    /\ scalar = NotCalled
    /\ scalar' = parse_simple_value(text)
    /\ UNCHANGED <<text, parserVars, validatorVars, issues, report, estimatorVars, format>>

----------------------------------------------------------------------------
(* toon_parser.rs: ToonParser as a machine over the line cursor.  One     *)
(* action is one iteration of the loop of the activation on top of the    *)
(* stack, or that activation's return.                                    *)

Running == [status |-> "running"]
Ok(v) == [status |-> "ok", value |-> v]
Err(e) == [status |-> "err", error |-> e]
\* the process aborted inside parse: no Result was returned
Aborted == [status |-> "panic"]

\* "Invalid syntax: "
InvalidSyntax ==
    <<"I", "n", "v", "a", "l", "i", "d", " ", "s", "y", "n", "t", "a", "x", ":", " ">>

ParseErrorLine_ZeroBased(cur) == cur

\* TqError::Parse, with line: self.current + 1 and the formatted message
ParseErrorLine(cur) == cur + 1
ParseError(cur, trimmed) ==
    [kind |-> "Parse", line |-> ParseErrorLine(cur), message |-> InvalidSyntax \o trimmed]

TableRowMismatch(name, declared, actual) ==
    [kind |-> "TableRowMismatch", name |-> name, declared |-> declared, actual |-> actual]

ParseValueFrame(indent) ==
    [fn |-> "parse_value", indent |-> indent, obj |-> EmptyMap, key |-> <<>>]
ParseTableFrame(name, declared_rows, parent_indent) ==
    [fn |-> "parse_table", name |-> name, declared_rows |-> declared_rows,
     parent_indent |-> parent_indent, rows |-> <<>>, row |-> EmptyMap]
ParseTableRowFrame(indent) ==
    [fn |-> "parse_table_row", indent |-> indent, row |-> EmptyMap]

\* what the parser never touches
others == <<text, scalar, tree, verdict, issues, tokens, breakdown, sum, format, report>>

Top == stack[Len(stack)]
Callers == SubSeq(stack, 1, Len(stack) - 1)
ReplaceTop(stk, frame) == [stk EXCEPT ![Len(stk)] = frame]

Active(fn) == result = Running /\ stack # <<>> /\ Top.fn = fn
HasLine == current < Len(lines)
Line == lines[current + 1]
LineIndent == count_indent(Line)
Trimmed == trim(Line)

\* the indent at which parse_table expects its row lines, and parse_table_row
\* its field lines
ExpectedIndent(parent_indent) == parent_indent + 2
FieldIndent(parent_indent) == ExpectedIndent(parent_indent) + 2
NestedIndent(indent) == indent + 2

RowCountMismatch_OnlyTooMany(rows, declared_rows) == Len(rows) > declared_rows

\* if rows.len() != declared_rows
RowCountMismatch(rows, declared_rows) == Len(rows) # declared_rows

\* matches!(value, Value::Null) && self.current < self.lines.len(), then
\* next_line_indent > indent; cur is the cursor after the key line is consumed
IsNestedObject(value, cur, indent) ==
    /\ value = Null
    /\ cur < Len(lines)
    /\ count_indent(lines[cur + 1]) > indent

\* The activation on top returns v to its caller: parse_value inserts a nested
\* object under the pending key and a table under the table's name, parse_table
\* pushes the row (the fields after the dash, extended by the returned ones),
\* and parse itself returns it.
Return(v) ==
    IF Callers = <<>> THEN
        /\ result' = Ok(v)
        /\ stack' = <<>>
    ELSE
        LET caller == Callers[Len(Callers)] IN
        /\ result' = result
        /\ stack' = ReplaceTop(Callers,
             IF caller.fn = "parse_table"
                 THEN [caller EXCEPT !.rows = Append(@, extend(caller.row, v)),
                                     !.row = EmptyMap]
             ELSE IF v.type = "Table"
                 THEN [caller EXCEPT !.obj = insert(@, v.name, v)]
             ELSE [caller EXCEPT !.obj = insert(@, caller.key, v), !.key = <<>>])

\* An error leaves every activation through the ? operator.
Fail(e) ==
    /\ result' = Err(e)
    /\ stack' = <<>>

(* parse_value *)

\* while self.current < self.lines.len() fails, or line_indent < indent: break
ParseValueReturn ==
    /\ Active("parse_value")
    /\ IF HasLine THEN LineIndent < Top.indent ELSE TRUE
    /\ Return(Object(Top.obj))
    /\ UNCHANGED <<others, lines, current, spins>>

\* line_indent > indent: continue, with the cursor where it was
ParseValueContinue ==
    /\ Active("parse_value")
    /\ HasLine /\ LineIndent > Top.indent
    /\ spins < MaxSpin
    /\ spins' = spins + 1
    /\ UNCHANGED <<others, lines, current, stack, result>>

ParseValueSkip ==
    /\ Active("parse_value")
    /\ HasLine /\ LineIndent = Top.indent
    /\ IsBlankOrComment(Trimmed)
    /\ current' = current + 1
    /\ UNCHANGED <<others, lines, stack, result, spins>>

ParseValueTable ==
    /\ Active("parse_value")
    /\ HasLine /\ LineIndent = Top.indent
    /\ ~IsBlankOrComment(Trimmed)
    /\ parse_table_header(Trimmed).some
    /\ current' = current + 1
    /\ stack' = Append(stack,
          ParseTableFrame(parse_table_header(Trimmed).name,
                          parse_table_header(Trimmed).num, Top.indent))
    /\ UNCHANGED <<others, lines, result, spins>>

ParseValueKeyValue ==
    /\ Active("parse_value")
    /\ HasLine /\ LineIndent = Top.indent
    /\ ~IsBlankOrComment(Trimmed)
    /\ ~parse_table_header(Trimmed).some
    /\ parse_key_value(Trimmed).some
    /\ parse_key_value(Trimmed).value # Panic
    /\ LET kv == parse_key_value(Trimmed) IN
       /\ current' = current + 1
       /\ stack' =
            IF IsNestedObject(kv.value, current + 1, Top.indent)
            THEN Append(ReplaceTop(stack, [Top EXCEPT !.key = kv.key]),
                        ParseValueFrame(NestedIndent(Top.indent)))
            ELSE ReplaceTop(stack, [Top EXCEPT !.obj = insert(@, kv.key, kv.value)])
    /\ UNCHANGED <<others, lines, result, spins>>

ParseValueError ==
    /\ Active("parse_value")
    /\ HasLine /\ LineIndent = Top.indent
    /\ ~IsBlankOrComment(Trimmed)
    /\ ~parse_table_header(Trimmed).some
    /\ ~parse_key_value(Trimmed).some
    /\ Fail(ParseError(current, Trimmed))
    /\ UNCHANGED <<others, lines, current, spins>>

(* parse_table *)

\* the while condition fails, or line_indent < expected_indent: break; then the
\* row count is checked
ParseTableFinish ==
    /\ Active("parse_table")
    /\ IF HasLine /\ Len(Top.rows) < Top.declared_rows
       THEN LineIndent < ExpectedIndent(Top.parent_indent)
       ELSE TRUE
    /\ IF RowCountMismatch(Top.rows, Top.declared_rows)
       THEN Fail(TableRowMismatch(Top.name, Top.declared_rows, Len(Top.rows)))
       ELSE Return(Table(Top.name, Top.declared_rows, Top.rows))
    /\ UNCHANGED <<others, lines, current, spins>>

\* a row scan that goes on past the declared number of rows
InTableLoop_NoRowLimit ==
    /\ Active("parse_table")
    /\ HasLine
    /\ LineIndent >= ExpectedIndent(Top.parent_indent)

InTableLoop ==
    /\ Active("parse_table")
    /\ HasLine
    /\ Len(Top.rows) < Top.declared_rows
    /\ LineIndent >= ExpectedIndent(Top.parent_indent)

ParseTableSkip ==
    /\ InTableLoop
    /\ IsBlankOrComment(Trimmed)
    /\ current' = current + 1
    /\ UNCHANGED <<others, lines, stack, result, spins>>

\* a "- " line: the field after the dash, if it parses, starts the row, and
\* parse_table_row reads the rest; with nothing after the dash the row is what
\* parse_table_row returns
AfterDash == SliceFrom(Trimmed, 2)
FirstField(after_dash) ==
    IF ~is_empty(after_dash) /\ parse_key_value(after_dash).some
    THEN insert(EmptyMap, parse_key_value(after_dash).key, parse_key_value(after_dash).value)
    ELSE EmptyMap
FirstFieldPanics(after_dash) ==
    /\ ~is_empty(after_dash)
    /\ parse_key_value(after_dash).some
    /\ parse_key_value(after_dash).value = Panic

ParseTableRow ==
    /\ InTableLoop
    /\ ~IsBlankOrComment(Trimmed)
    /\ IsRowMarker(Trimmed)
    /\ ~FirstFieldPanics(AfterDash)
    /\ current' = current + 1
    /\ stack' = Append(ReplaceTop(stack, [Top EXCEPT !.row = FirstField(AfterDash)]),
                       ParseTableRowFrame(FieldIndent(Top.parent_indent)))
    /\ UNCHANGED <<others, lines, result, spins>>

\* a scan that steps over the line after the one it skips
ParseTableSkipOther_SkipsTwo ==
    /\ InTableLoop
    /\ ~IsBlankOrComment(Trimmed)
    /\ ~IsRowMarker(Trimmed)
    /\ current' = current + 2
    /\ UNCHANGED <<others, lines, stack, result, spins>>

\* any other line of the row region: self.current += 1
ParseTableSkipOther ==
    /\ InTableLoop
    /\ ~IsBlankOrComment(Trimmed)
    /\ ~IsRowMarker(Trimmed)
    /\ current' = current + 1
    /\ UNCHANGED <<others, lines, stack, result, spins>>

(* parse_table_row *)

\* the loop ends: no line is left, the line is less indented, it is a row marker,
\* or it stands at the field indent and is no key: value line
ParseTableRowReturn ==
    /\ Active("parse_table_row")
    /\ IF ~HasLine THEN TRUE
       ELSE IF LineIndent < Top.indent THEN TRUE
       ELSE IF IsBlankOrComment(Trimmed) THEN FALSE
       ELSE IF IsRowMarker(Trimmed) THEN TRUE
       ELSE LineIndent = Top.indent /\ ~parse_key_value(Trimmed).some
    /\ Return(Top.row)
    /\ UNCHANGED <<others, lines, current, spins>>

InRowLoop ==
    /\ Active("parse_table_row")
    /\ HasLine
    /\ LineIndent >= Top.indent

ParseTableRowSkip ==
    /\ InRowLoop
    /\ IsBlankOrComment(Trimmed)
    /\ current' = current + 1
    /\ UNCHANGED <<others, lines, stack, result, spins>>

ParseTableRowField ==
    /\ InRowLoop
    /\ ~IsBlankOrComment(Trimmed)
    /\ ~IsRowMarker(Trimmed)
    /\ LineIndent = Top.indent
    /\ parse_key_value(Trimmed).some
    /\ parse_key_value(Trimmed).value # Panic
    /\ current' = current + 1
    /\ stack' = ReplaceTop(stack,
          [Top EXCEPT !.row = insert(@, parse_key_value(Trimmed).key,
                                        parse_key_value(Trimmed).value)])
    /\ UNCHANGED <<others, lines, result, spins>>

\* a line more indented than the fields: self.current += 1
ParseTableRowSkipDeeper ==
    /\ InRowLoop
    /\ ~IsBlankOrComment(Trimmed)
    /\ ~IsRowMarker(Trimmed)
    /\ LineIndent > Top.indent
    /\ current' = current + 1
    /\ UNCHANGED <<others, lines, stack, result, spins>>

\* parse_key_value reaches the slice that panics, in any of its three callers
CallsParseKeyValueAndPanics ==
    \/ /\ Active("parse_value")
       /\ HasLine /\ LineIndent = Top.indent
       /\ ~IsBlankOrComment(Trimmed)
       /\ ~parse_table_header(Trimmed).some
       /\ parse_key_value(Trimmed).some
       /\ parse_key_value(Trimmed).value = Panic
    \/ /\ InTableLoop
       /\ ~IsBlankOrComment(Trimmed)
       /\ IsRowMarker(Trimmed)
       /\ FirstFieldPanics(AfterDash)
    \/ /\ InRowLoop
       /\ ~IsBlankOrComment(Trimmed)
       /\ ~IsRowMarker(Trimmed)
       /\ LineIndent = Top.indent
       /\ parse_key_value(Trimmed).some
       /\ parse_key_value(Trimmed).value = Panic

ParsePanics ==
    /\ result = Running
    /\ stack # <<>>
    /\ CallsParseKeyValueAndPanics
    /\ result' = Aborted
    /\ stack' = <<>>
    /\ UNCHANGED <<others, lines, current, spins>>

----------------------------------------------------------------------------
(* validator.rs: Validator::validate.  A HashMap and a HashSet are visited *)
(* in an order the program does not fix, so validate is the set of results *)
(* it can return.                                                          *)

Valid == [status |-> "ok"]

TableSchemaInconsistent(name, message) ==
    [kind |-> "TableSchemaInconsistent", name |-> name, message |-> message]

\* the sequences that list every element of a set once: the orders in which a
\* HashSet can be collected into a Vec
Orderings(S) ==
    {f \in [1..Cardinality(S) -> S] : \A i, j \in 1..Cardinality(S) : f[i] = f[j] => i = j}

\* the sum of the numbers of a list: what a loop of `total += ..` adds up
RECURSIVE SumOf(_)
SumOf(ns) == IF ns = <<>> THEN 0 ELSE Head(ns) + SumOf(Tail(ns))

\* let schema: HashSet<String> = row.keys().cloned().collect()
Schema(row) == DOMAIN row

MissingFields_Swapped(first_schema, schema) == schema \ first_schema

\* first_schema.difference(schema) and schema.difference(first_schema)
MissingFields(first_schema, schema) == first_schema \ schema
ExtraFields(first_schema, schema) == schema \ first_schema

\* "Row {} has different schema. ", then "Missing fields: {:?}. " and
\* "Extra fields: {:?}. ", each only when its list is not empty
SchemaMessage(idx, missing, extra) ==
    [row |-> idx + 1,
     parts |-> (IF missing # <<>>
                THEN <<[label |-> "Missing fields", fields |-> missing]>> ELSE <<>>)
            \o (IF extra # <<>>
                THEN <<[label |-> "Extra fields", fields |-> extra]>> ELSE <<>>)]

\* the rows after the first whose schema differs from the first row's, 1-based
DivergentRows(rows) ==
    {i \in 2..Len(rows) : Schema(rows[i]) # Schema(rows[1])}
Least(S) == CHOOSE i \in S : \A j \in S : i <= j

RECURSIVE validate(_)
RECURSIVE validate_table(_)

\* for value in obj.values() { Self::validate(value)?; }: the first failing value,
\* in whatever order the map is visited
validate_object(obj) ==
    LET failing == {k \in DOMAIN obj : validate(obj[k]) # {Valid}} IN
    IF failing = {} THEN {Valid} ELSE UNION {validate(obj[k]) : k \in failing}

validate_array(arr) ==
    LET failing == {i \in 1..Len(arr) : validate(arr[i]) # {Valid}} IN
    IF failing = {} THEN {Valid} ELSE validate(arr[Least(failing)])

\* validate_table with the schema check moved before the row count check
validate_table_SchemaFirst(table) ==
    IF DivergentRows(table.rows) # {} THEN
        LET i == Least(DivergentRows(table.rows))
            first_schema == Schema(table.rows[1])
            schema == Schema(table.rows[i])
        IN  {Err(TableSchemaInconsistent(table.name, SchemaMessage(i - 1, missing, extra))) :
                missing \in Orderings(MissingFields(first_schema, schema)),
                extra \in Orderings(ExtraFields(first_schema, schema))}
    ELSE IF Len(table.rows) # table.declared_rows THEN
        {Err(TableRowMismatch(table.name, table.declared_rows, Len(table.rows)))}
    ELSE
        LET failing == {i \in 1..Len(table.rows) : validate_object(table.rows[i]) # {Valid}}
        IN  IF failing = {} THEN {Valid} ELSE validate_object(table.rows[Least(failing)])

validate_table(table) ==
    IF Len(table.rows) # table.declared_rows THEN
        {Err(TableRowMismatch(table.name, table.declared_rows, Len(table.rows)))}
    ELSE IF DivergentRows(table.rows) # {} THEN
        LET i == Least(DivergentRows(table.rows))
            first_schema == Schema(table.rows[1])
            schema == Schema(table.rows[i])
        IN  {Err(TableSchemaInconsistent(table.name, SchemaMessage(i - 1, missing, extra))) :
                missing \in Orderings(MissingFields(first_schema, schema)),
                extra \in Orderings(ExtraFields(first_schema, schema))}
    ELSE
        LET failing == {i \in 1..Len(table.rows) : validate_object(table.rows[i]) # {Valid}}
        IN  IF failing = {} THEN {Valid} ELSE validate_object(table.rows[Least(failing)])

\* validate with the Array arm left out
validate_ArraysUnchecked(value) ==
    CASE value.type = "Object" -> validate_object(value.obj)
      [] value.type = "Table" -> validate_table(value)
      [] OTHER -> {Valid}

validate(value) ==
    CASE value.type = "Object" -> validate_object(value.obj)
      [] value.type = "Table" -> validate_table(value)
      [] value.type = "Array" -> validate_array(value.items)
      [] OTHER -> {Valid}

(* The trees handed to validate: hand-built tables of up to MaxRows rows over  *)
(* two keys, a cell being a number or a table that is itself invalid.          *)

KeyA == <<"a">>
KeyB == <<"b">>
RowKeys == {KeyA, KeyB}
One == Number(<<"finite", 1, 0>>)
\* a table declared with one row that holds none
ShortTable == Table(<<"u">>, 1, <<>>)
CellValues == {One, ShortTable}
BuiltRows == UNION {[ks -> CellValues] : ks \in SUBSET RowKeys}
BuiltTables ==
    {Table(<<"t">>, d, rs) : d \in 0..MaxRows,
                            rs \in UNION {[1..n -> BuiltRows] : n \in 0..MaxRows}}

ValidatorInit ==
    /\ tree \in BuiltTables
    /\ verdict = NotCalled
    /\ issues = NotCalled

Validate ==
    /\ verdict = NotCalled
    /\ \E r \in validate(tree) : verdict' = r
    /\ UNCHANGED <<tree, parserVars, scalarVars, issues, report, estimatorVars, format>>

----------------------------------------------------------------------------
(* The input documents: up to MaxLines lines, each one of DocLines. *)

Sp(n) == [i \in 1..n |-> " "]

DocLines ==
    { <<"t", "[", "1", "]", ":">>,
      <<"t", "[", "2", "]", ":">>,
      Sp(2) \o <<"-", " ", "a", ":", " ", "1">>,
      Sp(2) \o <<"-">>,
      Sp(2) \o <<"j", "u", "n", "k">>,
      Sp(4) \o <<"b", ":", " ", "2">>,
      <<"k", ":">>,
      <<"k", ":", " ", "n", "u", "l", "l">>,
      <<"k", ":", " ", "\"">>,
      <<"a", ":", " ", "1">>,
      Sp(2) \o <<"a", ":", " ", "1">>,
      Sp(2) \o <<"k", ":">>,
      <<"#", " ", "c">>,
      Sp(2) \o <<"#", " ", "c">>,
      <<>>,
      <<"j", "u", "n", "k">>,
      Sp(4) \o <<"#", " ", "c">>,
      Sp(6) \o <<"d", ":", " ", "3">>,
      Sp(2) \o <<"-", " ", "b", ":", " ", "2">>,
      <<"a", ":", " ", "2">> }

Documents == UNION {[1..n -> DocLines] : n \in 0..MaxLines}

\* ToonParser::parse: the parser is built with the cursor at 0 and parse_value(0)
\* is called
ParserInit ==
    /\ lines \in Documents
    /\ current = 0
    /\ stack = <<ParseValueFrame(0)>>
    /\ result = Running
    /\ spins = 0

ParserIdle ==
    /\ lines = <<>>
    /\ current = 0
    /\ stack = <<>>
    /\ result = Running
    /\ spins = 0

ScalarIdle ==
    /\ text = <<>>
    /\ scalar = NotCalled

ValidatorIdle ==
    /\ tree = Null
    /\ verdict = NotCalled
    /\ issues = NotCalled

EstimatorIdle ==
    /\ tokens = NotCalled
    /\ breakdown = NotCalled
    /\ sum = NotCalled

CommandIdle ==
    /\ report = NotCalled
    /\ format = NotCalled

ParserNext ==
    \/ ParseValueReturn
    \/ ParseValueContinue
    \/ ParseValueSkip
    \/ ParseValueTable
    \/ ParseValueKeyValue
    \/ ParseValueError
    \/ ParseTableFinish
    \/ ParseTableSkip
    \/ ParseTableRow
    \/ ParseTableSkipOther
    \/ ParseTableRowReturn
    \/ ParseTableRowSkip
    \/ ParseTableRowField
    \/ ParseTableRowSkipDeeper
    \/ ParsePanics

Init == ParserInit /\ ScalarIdle /\ ValidatorIdle /\ EstimatorIdle /\ CommandIdle
Next == ParserNext
Spec == Init /\ [][Next]_vars

InitScalar == ParserIdle /\ ScalarInit /\ ValidatorIdle /\ EstimatorIdle /\ CommandIdle
NextScalar == CallParseSimpleValue
SpecScalar == InitScalar /\ [][NextScalar]_vars

----------------------------------------------------------------------------
(* Properties of the parser, checked under Spec. *)

\* every Table in a Value tree, through object values, array elements and row cells
RECURSIVE TablesOf(_)
TablesOf(v) ==
    CASE v.type = "Object" -> UNION {TablesOf(v.obj[k]) : k \in DOMAIN v.obj}
      [] v.type = "Array" -> UNION {TablesOf(v.items[i]) : i \in 1..Len(v.items)}
      [] v.type = "Table" ->
            {v} \cup UNION {UNION {TablesOf(v.rows[i][k]) : k \in DOMAIN v.rows[i]}
                            : i \in 1..Len(v.rows)}
      [] OTHER -> {}

\* parse_table has left its row scan: no line is left, the declared count is
\* reached, or the line is indented less than the rows
TableScanOver ==
    /\ Active("parse_table")
    /\ IF HasLine /\ Len(Top.rows) < Top.declared_rows
       THEN LineIndent < Top.parent_indent + 2
       ELSE TRUE

\* C1: every Table of a returned tree holds exactly declared_rows rows, and a
\* row scan that ends with another number of rows makes parse return
\* TableRowMismatch with the header's name and count and the rows collected.
C1_TableRowsMatchDeclared ==
    /\ [](result.status = "ok" =>
            \A t \in TablesOf(result.value) : Len(t.rows) = t.declared_rows)
    /\ [][(TableScanOver /\ Len(Top.rows) # Top.declared_rows) =>
            /\ result' = Err([kind |-> "TableRowMismatch", name |-> Top.name,
                              declared |-> Top.declared_rows, actual |-> Len(Top.rows)])
            /\ stack' = <<>>]_vars

\* C1 witness: a tree with a two-row table has been returned
C1_Witness ==
    /\ result.status = "ok"
    /\ \E t \in TablesOf(result.value) : Len(t.rows) = 2 /\ t.declared_rows = 2

\* C2 (as claimed): while parse runs, every step advances the cursor, ends the
\* scan of the activation on top, or ends the parse.
C2_EveryIterationProgresses ==
    [][result = Running =>
         \/ current' > current
         \/ Len(stack') < Len(stack)
         \/ result' # Running]_vars

\* a line that is no blank, comment, table header, key: value pair or row marker
Malformed(line) ==
    LET t == trim(line) IN
    /\ ~IsBlankOrComment(t)
    /\ ~parse_table_header(t).some
    /\ ~parse_key_value(t).some
    /\ ~IsRowMarker(t)

\* C3 (as claimed): no tree is returned for an input that holds a malformed line.
C3_NoMalformedLineDropped ==
    result.status = "ok" => \A i \in 1..Len(lines) : ~Malformed(lines[i])

NoColon(t) == \A i \in 1..Len(t) : t[i] # ":"

\* parse_value stands at a line of exactly its indent that is no blank, no
\* comment and holds no ':'
AtInvalidLine ==
    /\ Active("parse_value")
    /\ HasLine
    /\ LineIndent = Top.indent
    /\ Trimmed # <<>>
    /\ Head(Trimmed) # "#"
    /\ NoColon(Trimmed)

\* C4: from such a line parse returns Parse with the line's 1-based number and a
\* message that ends with its trimmed text, and no activation is left; and a
\* Parse error always names the line the cursor stopped at, which holds no ':'.
C4_InvalidLineIsParseError ==
    /\ [][AtInvalidLine =>
            /\ result'.status = "err"
            /\ result'.error.kind = "Parse"
            /\ result'.error.line = current + 1
            /\ ends_with(result'.error.message, Trimmed)
            /\ stack' = <<>>]_vars
    /\ []((result.status = "err" /\ result.error.kind = "Parse") =>
            /\ result.error.line = current + 1
            /\ result.error.line \in 1..Len(lines)
            /\ NoColon(trim(lines[result.error.line]))
            /\ result.error.message = InvalidSyntax \o trim(lines[result.error.line]))

\* C4 witness: a Parse error was returned for the third line, inside a nested object
C4_Witness ==
    /\ result.status = "err"
    /\ result.error.kind = "Parse"
    /\ result.error.line = 3
    /\ count_indent(lines[3]) = 2

\* C5 (as claimed): parse never aborts.
C5_ParseNeverAborts == result.status # "panic"

\* parse_value stands at a key: value line of its indent whose value parses
AtKeyValueLine ==
    /\ Active("parse_value")
    /\ HasLine
    /\ LineIndent = Top.indent
    /\ ~IsBlankOrComment(Trimmed)
    /\ ~parse_table_header(Trimmed).some
    /\ parse_key_value(Trimmed).some
    /\ parse_key_value(Trimmed).value # Panic

ValuePortion(t) == trim(SliceFrom(t, find(t, ":") + 1))
NextLineDeeper ==
    /\ current + 1 < Len(lines)
    /\ count_indent(lines[current + 2]) > Top.indent

\* C6 (as claimed): a key: value line starts a nested object at indent + 2 exactly
\* when its value portion is empty and the next line is indented deeper; a line
\* with a value portion maps the key to the literal's value.
C6_NestedIffEmptyValue ==
    [][AtKeyValueLine =>
         /\ (/\ Len(stack') = Len(stack) + 1
             /\ stack'[Len(stack')] = ParseValueFrame(Top.indent + 2))
            <=> (is_empty(ValuePortion(Trimmed)) /\ NextLineDeeper)
         /\ ~is_empty(ValuePortion(Trimmed)) =>
              /\ Len(stack') = Len(stack)
              /\ stack'[Len(stack')].obj[parse_key_value(Trimmed).key]
                    = parse_simple_value(ValuePortion(Trimmed))]_vars

\* C7 (as claimed): in the row scan of parse_table a line that is a dash alone
\* starts a row, whose fields parse_table_row reads at parent_indent + 4.
C7_LoneDashStartsRow ==
    [][(InTableLoop /\ Trimmed = <<"-">>) =>
         /\ Len(stack') = Len(stack) + 1
         /\ stack'[Len(stack')] = ParseTableRowFrame(Top.parent_indent + 4)]_vars

\* C9 (as claimed): parse_value consumes a blank or comment line, whatever its
\* indent, and neither leaves its scope nor changes its object.
C9_BlankOrCommentConsumed ==
    [][(Active("parse_value") /\ HasLine /\ IsBlankOrComment(Trimmed)) =>
         /\ current' = current + 1
         /\ stack' = stack
         /\ result' = result]_vars

----------------------------------------------------------------------------
(* Properties of parse_simple_value, checked under SpecScalar. *)

EnclosedInQuotes(t) ==
    /\ Len(t) >= 2
    /\ t[1] \in {"\"", "'"}
    /\ t[Len(t)] = t[1]

\* the rules in the order the claim gives them
RECURSIVE ClaimedScalar(_)
ClaimedScalar(s) ==
    LET t == trim(s) IN
    IF t = NullText THEN Null
    ELSE IF t = TrueText THEN Bool(TRUE)
    ELSE IF t = FalseText THEN Bool(FALSE)
    ELSE IF EnclosedInQuotes(t) THEN String(SubSeq(t, 2, Len(t) - 1))
    ELSE IF parse_f64(t).ok THEN Number(parse_f64(t).num)
    ELSE IF Len(t) >= 2 /\ t[1] = "[" /\ t[Len(t)] = "]" THEN
        LET pieces == split(SubSeq(t, 2, Len(t) - 1), ",") IN
        Array([i \in 1..Len(pieces) |-> ClaimedScalar(pieces[i])])
    ELSE String(t)

\* C8 (as claimed): parse_simple_value returns what the ordered rules give, for
\* every text.
C8_ScalarRulesInOrder ==
    scalar # NotCalled => scalar = ClaimedScalar(text)

InitValidate == ParserIdle /\ ScalarIdle /\ ValidatorInit /\ EstimatorIdle /\ CommandIdle
NextValidate == Validate
SpecValidate == InitValidate /\ [][NextValidate]_vars

----------------------------------------------------------------------------
(* Properties of Validator::validate, checked under SpecValidate. *)

KeySet(row) == {k \in RowKeys : k \in DOMAIN row}

\* the fields a message lists under a label, and whether it lists any
Listed(message, label) ==
    UNION {{message.parts[j].fields[i] : i \in 1..Len(message.parts[j].fields)} :
             j \in {n \in 1..Len(message.parts) : message.parts[n].label = label}}
Lists(message, label) ==
    \E j \in 1..Len(message.parts) : message.parts[j].label = label

\* C10: for a table whose row count is the declared one and whose rows differ in
\* key set, validate returns TableSchemaInconsistent with the table's name and
\* the least row index i >= 2 whose key set B differs from row 1's key set A;
\* the missing fields are A \ B, the extra fields B \ A, each listed once and
\* left out when empty.
C10_FirstDivergentRowReported ==
    (/\ verdict # NotCalled
     /\ Len(tree.rows) = tree.declared_rows
     /\ \E i \in 2..Len(tree.rows) : KeySet(tree.rows[i]) # KeySet(tree.rows[1]))
    =>
    LET i == CHOOSE n \in 2..Len(tree.rows) :
                 /\ KeySet(tree.rows[n]) # KeySet(tree.rows[1])
                 /\ \A m \in 2..(n - 1) : KeySet(tree.rows[m]) = KeySet(tree.rows[1])
        A == KeySet(tree.rows[1])
        B == KeySet(tree.rows[i])
        m == verdict.error.message
    IN  /\ verdict.status = "err"
        /\ verdict.error.kind = "TableSchemaInconsistent"
        /\ verdict.error.name = tree.name
        /\ m.row = i
        /\ Listed(m, "Missing fields") = A \ B
        /\ Listed(m, "Extra fields") = B \ A
        /\ Lists(m, "Missing fields") <=> A \ B # {}
        /\ Lists(m, "Extra fields") <=> B \ A # {}
        /\ \A j \in 1..Len(m.parts) :
              Len(m.parts[j].fields) = Cardinality({m.parts[j].fields[x] :
                                                       x \in 1..Len(m.parts[j].fields)})

\* C10 witness: row 2 is reported, with a missing and an extra field, though
\* row 3 diverges too, in another way, and a cell of row 1 holds an invalid table
C10_Witness ==
    /\ verdict # NotCalled
    /\ verdict.status = "err"
    /\ verdict.error.kind = "TableSchemaInconsistent"
    /\ verdict.error.message.row = 2
    /\ Len(verdict.error.message.parts) = 2
    /\ Len(tree.rows) = 3
    /\ KeySet(tree.rows[3]) \notin {KeySet(tree.rows[1]), KeySet(tree.rows[2])}
    /\ \E k \in DOMAIN tree.rows[1] : tree.rows[1][k] = ShortTable

\* C11: for a Table whose number of rows is not the declared one, validate
\* returns TableRowMismatch with the table's name, declared = declared_rows and
\* actual = rows.len(), whatever the rows hold: the count is compared before the
\* key sets of the rows are, and before any cell is validated.
C11_RowCountCheckedFirst ==
    (/\ verdict # NotCalled
     /\ Len(tree.rows) # tree.declared_rows)
    =>
    verdict = [status |-> "err",
               error |-> [kind |-> "TableRowMismatch", name |-> tree.name,
                          declared |-> tree.declared_rows, actual |-> Len(tree.rows)]]

\* C11 witness: a table of two rows declared with three, whose rows differ in
\* key set and whose first row holds an invalid table, is reported for its count
C11_Witness ==
    /\ verdict # NotCalled
    /\ verdict.status = "err"
    /\ verdict.error.kind = "TableRowMismatch"
    /\ verdict.error.declared = 3
    /\ verdict.error.actual = 2
    /\ KeySet(tree.rows[1]) # KeySet(tree.rows[2])
    /\ \E k \in DOMAIN tree.rows[1] : tree.rows[1][k] = ShortTable

----------------------------------------------------------------------------
(* validator.rs: Validator::check_structure.  The advisories are pushed in   *)
(* the order of the walk; the fields of an object are visited in an order    *)
(* the program does not fix, so check_structure is the set of lists it can   *)
(* return.                                                                   *)

\* a call that returned x
Returned(x) == [type |-> "Returned", value |-> x]

\* usize's Display: the decimal digits
DigitText(d) == CASE d = 0 -> "0" [] d = 1 -> "1" [] d = 2 -> "2" [] d = 3 -> "3"
                  [] d = 4 -> "4" [] d = 5 -> "5" [] d = 6 -> "6" [] d = 7 -> "7"
                  [] d = 8 -> "8" [] d = 9 -> "9"
RECURSIVE UsizeText(_)
UsizeText(n) ==
    IF n < 10 THEN <<DigitText(n)>> ELSE UsizeText(n \div 10) \o <<DigitText(n % 10)>>

\* the literal pieces of the format strings
EmptyObjectText ==
    <<"E", "m", "p", "t", "y", " ", "o", "b", "j", "e", "c", "t">>
EmptyArrayText ==
    <<":", " ", "E", "m", "p", "t", "y", " ", "a", "r", "r", "a", "y">>
TableDeclaredText ==
    <<":", " ", "T", "a", "b", "l", "e", " ", "d", "e", "c", "l", "a", "r",
      "e", "d", " ", "w", "i", "t", "h", " ">>
RowsButEmptyText ==
    <<" ", "r", "o", "w", "s", " ", "b", "u", "t", " ", "i", "s", " ", "e",
      "m", "p", "t", "y">>

\* format!("{}: ", path), or nothing at the root
ObjectPrefix(path) == IF is_empty(path) THEN <<>> ELSE path \o <<":", " ">>
\* key.clone() at the root, format!("{}.{}", path, key) below it
FieldPath(path, key) == IF is_empty(path) THEN key ELSE path \o <<".">> \o key
\* format!("{}[{}]", path, idx)
ElementPath(path, idx) == path \o <<"[">> \o UsizeText(idx) \o <<"]">>

\* the lists made of one list from each set, in turn
RECURSIVE Concatenations(_)
Concatenations(sets) ==
    IF sets = <<>> THEN {<<>>}
    ELSE {h \o t : h \in Head(sets), t \in Concatenations(Tail(sets))}

DeclaredButEmpty_AnyEmpty(table) == table.rows = <<>>

\* table.rows.is_empty() && table.declared_rows > 0
DeclaredButEmpty(table) == table.rows = <<>> /\ table.declared_rows > 0

RECURSIVE check_structure_recursive(_, _)
check_structure_recursive(value, path) ==
    CASE value.type = "Object" ->
            LET own == IF DOMAIN value.obj = {}
                       THEN <<ObjectPrefix(path) \o EmptyObjectText>> ELSE <<>>
                below(order) ==
                    Concatenations([i \in 1..Len(order) |->
                        check_structure_recursive(value.obj[order[i]],
                                                  FieldPath(path, order[i]))])
            IN  {own \o rest :
                    rest \in UNION {below(order) : order \in Orderings(DOMAIN value.obj)}}
      [] value.type = "Array" ->
            LET own == IF value.items = <<>> THEN <<path \o EmptyArrayText>> ELSE <<>>
                below ==
                    Concatenations([i \in 1..Len(value.items) |->
                        check_structure_recursive(value.items[i], ElementPath(path, i - 1))])
            IN  {own \o rest : rest \in below}
      [] value.type = "Table" ->
            IF DeclaredButEmpty(value)
            THEN {<<path \o TableDeclaredText \o UsizeText(value.declared_rows)
                         \o RowsButEmptyText>>}
            ELSE {<<>>}
      [] OTHER -> {<<>>}

check_structure(value) == check_structure_recursive(value, <<>>)

CheckStructure ==
    /\ issues = NotCalled
    /\ \E r \in check_structure(tree) : issues' = Returned(r)
    /\ UNCHANGED <<tree, verdict, report, parserVars, scalarVars, estimatorVars, format>>

----------------------------------------------------------------------------
(* check.rs: check_file, from the result of Parser::parse on.  What it      *)
(* prints is kept as the fields it prints; the exit code is the one the     *)
(* process ends with.                                                       *)

\* format!("Parse error: {}", e), format!("Validation error: {}", e), format!("Error: {}", e)
ErrorLine(prefix, e) == [prefix |-> prefix, error |-> e]

\* the CheckResult printed as JSON, or the text lines
Printed(json_output, valid, errors, warnings) ==
    IF json_output
    THEN [mode |-> "json", valid |-> valid, errors |-> errors, warnings |-> warnings]
    ELSE [mode |-> "text", status |-> IF valid THEN "VALID" ELSE "INVALID",
          errors |-> errors, warnings |-> warnings]

ValidationKinds == {"TableRowMismatch", "TableSchemaInconsistent", "Validation"}

ParseErrorExitCode_AlwaysOne(e) == 1

\* "Parse error is exit code 1, validation error is exit code 2"
ParseErrorExitCode(e) == IF e.kind \in ValidationKinds THEN 2 ELSE 1

\* errors.push(..) for what validate returned
ValidationErrors(v) ==
    IF v = Valid THEN <<>>
    ELSE IF v.error.kind \in {"TableRowMismatch", "TableSchemaInconsistent"}
        THEN <<ErrorLine("Validation error", v.error)>>
    ELSE <<ErrorLine("Error", v.error)>>

check_file(parse_result, json_output) ==
    IF parse_result.status = "err" THEN
        {[printed |-> Printed(json_output, FALSE,
                              <<ErrorLine("Parse error", parse_result.error)>>, <<>>),
          exit |-> ParseErrorExitCode(parse_result.error)]}
    ELSE
        {LET errors == ValidationErrors(v)
             is_valid == errors = <<>>
         IN  [printed |-> Printed(json_output, is_valid, errors, warnings),
              exit |-> IF is_valid THEN 0 ELSE 2] :
            v \in validate(parse_result.value),
            warnings \in check_structure(parse_result.value)}

----------------------------------------------------------------------------
(* The trees handed to validate, check_structure and check_file: arrays of  *)
(* up to MaxItems elements and objects of up to two fields over a few       *)
(* leaves and tables, and such a container inside an array or an object.    *)

KeyT == <<"t">>
KeyU == <<"u">>
Test == String(<<"t", "e", "s", "t">>)
EmptyObject == Object(EmptyMap)

\* one row, as declared
GoodTable == Table(KeyT, 1, <<KeyA :> One>>)
\* no row, as declared
EmptyTable == Table(KeyT, 0, <<>>)
\* two rows as declared, the second with another key
MixedTable == Table(KeyT, 2, <<KeyA :> One, KeyB :> One>>)
\* two rows as declared, the second without one key of the first
MixedTableU == Table(KeyU, 2, <<(KeyA :> One) @@ (KeyB :> One), KeyA :> One>>)
\* a row as declared whose cell is a table declared with one row that holds none
NestTable == Table(KeyT, 1, <<KeyA :> ShortTable>>)
\* a row as declared whose cell is an empty object
HoldsEmpty == Table(KeyT, 1, <<KeyA :> EmptyObject>>)

TreeTables ==
    {GoodTable, EmptyTable, ShortTable, MixedTable, MixedTableU, NestTable, HoldsEmpty}
TreeLeaves == {Null, Bool(TRUE), One, Test}

ArraysOver(base) == {Array(items) : items \in UNION {[1..n -> base] : n \in 0..MaxItems}}
ObjectsOver(keys, base) == {Object(obj) : obj \in UNION {[ks -> base] : ks \in SUBSET keys}}
Containers(keys, base) == ArraysOver(base) \cup ObjectsOver(keys, base)
\* a container alone, as the one element of an array, or as the one field of an object
Nested(key, inner) ==
    inner \cup {Array(<<x>>) : x \in inner} \cup {Object(key :> x) : x \in inner}

Trees ==
    TreeLeaves \cup TreeTables
        \cup Nested(KeyT, Containers({KeyT, KeyU}, TreeLeaves \cup TreeTables))

TreeInit ==
    /\ tree \in Trees
    /\ verdict = NotCalled
    /\ issues = NotCalled

\* check_file when Parser::parse has returned the tree
CheckParsed ==
    /\ report = NotCalled
    /\ \E json_output \in BOOLEAN :
          \E r \in check_file(Ok(tree), json_output) : report' = r
    /\ UNCHANGED <<tree, verdict, issues, parserVars, scalarVars, estimatorVars, format>>

InitTree == ParserIdle /\ ScalarIdle /\ TreeInit /\ EstimatorIdle /\ CommandIdle
NextTree == Validate \/ CheckStructure \/ CheckParsed
SpecTree == InitTree /\ [][NextTree]_vars

----------------------------------------------------------------------------
(* Properties of validate, check_structure and check_file on hand-built      *)
(* trees, checked under SpecTree.                                            *)

\* a table holds as many rows as it declares, and its rows have one key set
WellFormed(t) ==
    /\ Len(t.rows) = t.declared_rows
    /\ \A i, j \in 1..Len(t.rows) : DOMAIN t.rows[i] = DOMAIN t.rows[j]

\* C12: validate returns Ok exactly when every Table reached from the value
\* through object values, array elements and row cells holds its declared
\* number of rows and has one key set in all its rows; so Null, Bool, Number and
\* String are valid, and so is a tree that holds no Table.
C12_ValidIffEveryTableWellFormed ==
    verdict # NotCalled =>
        /\ verdict = Valid <=> \A t \in TablesOf(tree) : WellFormed(t)
        /\ tree.type \in {"Null", "Bool", "Number", "String"} => verdict = Valid
        /\ TablesOf(tree) = {} => verdict = Valid

\* C12 witness: the one fault lies in a cell of a table that is an element of
\* an array that is a field of the root object, and validate reports it
C12_Witness ==
    /\ tree = Object(KeyT :> Array(<<One, NestTable>>))
    /\ verdict = [status |-> "err",
                  error |-> [kind |-> "TableRowMismatch", name |-> KeyU,
                             declared |-> 1, actual |-> 0]]

\* the values directly under the root: the fields of an object, the elements of
\* an array
Siblings(v) ==
    CASE v.type = "Object" -> {v.obj[k] : k \in DOMAIN v.obj}
      [] v.type = "Array" -> {v.items[i] : i \in 1..Len(v.items)}
      [] OTHER -> {}
InvalidSiblingTables(v) == {x \in Siblings(v) : x.type = "Table" /\ ~WellFormed(x)}

\* C13 (as claimed): the errors check_file reports hold one error for every
\* invalid table of the document: with invalid tables side by side in an object
\* or an array, each of them is named by an error of the list.
C13_EveryInvalidTableReported ==
    report # NotCalled =>
        LET errors == report.printed.errors IN
        /\ Len(errors) >= Cardinality(InvalidSiblingTables(tree))
        /\ \A t \in InvalidSiblingTables(tree) :
              \E i \in 1..Len(errors) : errors[i].error.name = t.name

\* whether the node itself is one the claim counts, by kind
Counted(v, kind) ==
    CASE kind = "object" -> v.type = "Object" /\ DOMAIN v.obj = {}
      [] kind = "array" -> v.type = "Array" /\ Len(v.items) = 0
      [] kind = "table" -> v.type = "Table" /\ Len(v.rows) = 0 /\ v.declared_rows > 0

\* the counted nodes reached through object values and array elements
RECURSIVE CountOf(_, _)
CountOf(v, kind) ==
    (IF Counted(v, kind) THEN 1 ELSE 0)
    + (CASE v.type = "Object" ->
              LET order == CHOOSE o \in Orderings(DOMAIN v.obj) : TRUE
              IN  SumOf([i \in 1..Len(order) |-> CountOf(v.obj[order[i]], kind)])
         [] v.type = "Array" ->
              SumOf([i \in 1..Len(v.items) |-> CountOf(v.items[i], kind)])
         [] OTHER -> 0)

Ending(kind) ==
    CASE kind = "object" -> EmptyObjectText
      [] kind = "array" -> EmptyArrayText
      [] kind = "table" -> RowsButEmptyText

\* C14: check_structure always returns, and its list holds one advisory for
\* every empty Object, one for every empty Array and one for every Table with
\* declared_rows > 0 and no rows, among the nodes reached from the root through
\* object values and array elements, and nothing else; the root empty Object
\* gives the one advisory "Empty object", a tree with no such node the empty list.
C14_OneAdvisoryPerNode ==
    /\ issues = NotCalled => ENABLED CheckStructure
    /\ issues # NotCalled =>
          LET list == issues.value IN
          /\ \A kind \in {"object", "array", "table"} :
                Cardinality({i \in 1..Len(list) : ends_with(list[i], Ending(kind))})
                    = CountOf(tree, kind)
          /\ Len(list) = CountOf(tree, "object") + CountOf(tree, "array")
                             + CountOf(tree, "table")
          /\ tree = EmptyObject => list = <<EmptyObjectText>>

\* C14 witness: an array under the root object holds a table whose row holds an
\* empty object, and a table declared with one row that holds none: the one
\* advisory is for the second table
C14_Witness ==
    /\ tree = Object(KeyT :> Array(<<HoldsEmpty, ShortTable>>))
    /\ issues = Returned(<<KeyT \o <<"[", "1", "]">> \o TableDeclaredText \o <<"1">>
                             \o RowsButEmptyText>>)

----------------------------------------------------------------------------
(* The check command on a TOON document: ToonParser::parse runs as above,   *)
(* and check_file goes on from the Result it returned.  The documents are   *)
(* up to MaxLines lines, each one of CheckLines; none starts with '{' or    *)
(* '[', so the format is Toon whether it is given or detected.              *)

CheckLines ==
    { <<"t", "[", "0", "]", ":">>,
      <<"t", "[", "1", "]", ":">>,
      <<"t", "[", "2", "]", ":">>,
      Sp(2) \o <<"-", " ", "a", ":", " ", "1">>,
      Sp(2) \o <<"-", " ", "b", ":", " ", "2">>,
      Sp(4) \o <<"b", ":", " ", "2">>,
      Sp(4) \o <<"#", " ", "c">>,
      Sp(6) \o <<"d", ":", " ", "3">>,
      <<"k", ":">>,
      <<"k", ":", " ", "\"">>,
      <<"a", ":", " ", "1">>,
      Sp(2) \o <<"a", ":", " ", "1">>,
      <<"#", " ", "c">>,
      <<"j", "u", "n", "k">> }

CheckDocuments == UNION {[1..n -> CheckLines] : n \in 0..MaxLines}

CheckInit ==
    /\ lines \in CheckDocuments
    /\ current = 0
    /\ stack = <<ParseValueFrame(0)>>
    /\ result = Running
    /\ spins = 0

\* check_file, once Parser::parse has returned; a parse that aborted or never
\* returns leaves nothing to go on from
CheckFile ==
    /\ result.status \in {"ok", "err"}
    /\ report = NotCalled
    /\ \E json_output \in BOOLEAN :
          \E r \in check_file(result, json_output) : report' = r
    /\ UNCHANGED <<parserVars, scalarVars, validatorVars, issues, estimatorVars, format>>

InitCheck == CheckInit /\ ScalarIdle /\ ValidatorIdle /\ EstimatorIdle /\ CommandIdle
NextCheck == ParserNext \/ CheckFile
SpecCheck == InitCheck /\ [][NextCheck]_vars

----------------------------------------------------------------------------
(* Properties of the check command on parsed documents, checked under       *)
(* SpecCheck.                                                               *)

\* C15: when parse has succeeded, validate on the parsed tree never returns
\* TableRowMismatch (an error it returns is TableSchemaInconsistent), and
\* check_structure on it never gives a "declared with N rows but is empty"
\* advisory.
C15_ParsedTreeHoldsDeclaredRows ==
    (report # NotCalled /\ result.status = "ok") =>
        /\ \A i \in 1..Len(report.printed.errors) :
              report.printed.errors[i].error.kind = "TableSchemaInconsistent"
        /\ \A i \in 1..Len(report.printed.warnings) :
              ~ends_with(report.printed.warnings[i], RowsButEmptyText)

\* C15 witness: a parsed document holds a table of two rows with different
\* keys, and validate reports it for its schema
C15_Witness ==
    /\ report # NotCalled
    /\ result.status = "ok"
    /\ \E t \in TablesOf(result.value) : Len(t.rows) = 2 /\ t.declared_rows = 2
    /\ Len(report.printed.errors) = 1
    /\ report.printed.errors[1].error.kind = "TableSchemaInconsistent"

\* what the run says of the document in text mode: the line "Status: VALID" or
\* "Status: INVALID"
PrintsStatus(printed, word) == printed.mode = "text" /\ printed.status = word
\* what it says in either mode: the status line, or the field valid of the JSON
Reports(printed, valid) ==
    IF printed.mode = "text"
    THEN printed.status = (IF valid THEN "VALID" ELSE "INVALID")
    ELSE printed.valid = valid

\* C16 (as claimed): a Parse error exits with code 1; a row count mismatch
\* raised while parsing and any error of validate exit with code 2 and print
\* "Status: INVALID"; a document that parses and validates exits with 0 and
\* prints "Status: VALID", whatever check_structure found.
C16_ExitCodeAndStatusLine ==
    report # NotCalled =>
        /\ (result.status = "err" /\ result.error.kind = "Parse") => report.exit = 1
        /\ (result.status = "err" /\ result.error.kind = "TableRowMismatch") =>
              report.exit = 2 /\ PrintsStatus(report.printed, "INVALID")
        /\ (result.status = "ok" /\ validate(result.value) # {Valid}) =>
              report.exit = 2 /\ PrintsStatus(report.printed, "INVALID")
        /\ (result.status = "ok" /\ validate(result.value) = {Valid}) =>
              report.exit = 0 /\ PrintsStatus(report.printed, "VALID")

\* C16 (amended): the exit codes are as claimed; the run prints "Status: INVALID"
\* or "Status: VALID" in text mode, and with JSON output it prints no status
\* line but the result with valid false or true.
C16_ExitCodeByOutcome ==
    report # NotCalled =>
        /\ (result.status = "err" /\ result.error.kind = "Parse") =>
              report.exit = 1 /\ Reports(report.printed, FALSE)
        /\ (result.status = "err" /\ result.error.kind = "TableRowMismatch") =>
              report.exit = 2 /\ Reports(report.printed, FALSE)
        /\ (result.status = "ok" /\ validate(result.value) # {Valid}) =>
              report.exit = 2 /\ Reports(report.printed, FALSE)
        /\ (result.status = "ok" /\ validate(result.value) = {Valid}) =>
              report.exit = 0 /\ Reports(report.printed, TRUE)

\* C16 witness: with JSON output, a document that parses and validates ends
\* with code 0 and valid true though check_structure gave an advisory
C16_Witness ==
    /\ report # NotCalled
    /\ report.exit = 0
    /\ report.printed.mode = "json"
    /\ report.printed.valid
    /\ report.printed.warnings # <<>>
    /\ result.status = "ok"

----------------------------------------------------------------------------
(* token_estimator.rs: TokenEstimator and TokenBreakdown.  The sums do not  *)
(* depend on the order in which a map is visited, so one order is taken.    *)

Zeros(n) == [i \in 1..n |-> "0"]

\* f64's Display, as n.to_string() gives it: no exponent, no trailing ".0"
to_string(n) ==
    CASE n[1] = "nan" -> <<"N", "a", "N">>
      [] n[1] = "inf" -> (IF n[2] < 0 THEN <<"-">> ELSE <<>>) \o <<"i", "n", "f">>
      [] OTHER ->
            LET m == n[2]
                e == n[3]
                sign == IF m < 0 THEN <<"-">> ELSE <<>>
                ds == UsizeText(IF m < 0 THEN -m ELSE m)
                d == Len(ds)
            IN  IF e >= 0 THEN sign \o ds \o Zeros(e)
                ELSE IF d > -e
                    THEN sign \o SubSeq(ds, 1, d + e) \o <<".">> \o SubSeq(ds, d + e + 1, d)
                ELSE sign \o <<"0", ".">> \o Zeros(-e - d) \o ds

\* the keys of a map in one of the orders it can be visited in
Entries(map) == CHOOSE order \in Orderings(DOMAIN map) : TRUE

RECURSIVE count_characters(_)
count_characters(value) ==
    CASE value.type = "Null" -> 4
      [] value.type = "Bool" -> IF value.b THEN 4 ELSE 5
      [] value.type = "Number" -> Len(to_string(value.n))
      [] value.type = "String" -> Len(value.s) + 2
      [] value.type = "Array" ->
            2 + SumOf([i \in 1..Len(value.items) |->
                        (IF i - 1 > 0 THEN 2 ELSE 0) + count_characters(value.items[i])])
      [] value.type = "Object" ->
            LET keys == Entries(value.obj) IN
            2 + SumOf([i \in 1..Len(keys) |->
                        (IF i - 1 > 0 THEN 2 ELSE 0) + (Len(keys[i]) + 3)
                            + count_characters(value.obj[keys[i]])])
      [] value.type = "Table" ->
            (Len(value.name) + 10)
            + SumOf([r \in 1..Len(value.rows) |->
                       LET keys == Entries(value.rows[r]) IN
                       2 + SumOf([i \in 1..Len(keys) |->
                                   (Len(keys[i]) + 2)
                                       + count_characters(value.rows[r][keys[i]])])])

estimate_Floor(value) == count_characters(value) \div 4

\* TokenBreakdown::new and the add_ methods
TokenBreakdownNew ==
    [keys |-> 0, strings |-> 0, primitives |-> 0, structure |-> 0, tables |-> 0,
     table_rows |-> 0]
add_key(b, n) == [b EXCEPT !.keys = @ + n]
add_string(b, n) == [b EXCEPT !.strings = @ + n]
add_primitive(b, n) == [b EXCEPT !.primitives = @ + n]
\* a structure bucket that counts every container once, whatever it holds
add_structure_One(b, n) == [b EXCEPT !.structure = @ + 1]
add_structure(b, n) == [b EXCEPT !.structure = @ + n]
add_table(b, name_tokens, rows) ==
    [b EXCEPT !.tables = @ + name_tokens, !.table_rows = @ + rows]

total_WithRows(b) ==
    b.keys + b.strings + b.primitives + b.structure + b.tables + b.table_rows

total(b) == b.keys + b.strings + b.primitives + b.structure + b.tables

RECURSIVE analyze_value(_, _)
\* for item in arr { analyze_value(item, breakdown) }
RECURSIVE analyze_items(_, _)
analyze_items(items, b) ==
    IF items = <<>> THEN b ELSE analyze_items(Tail(items), analyze_value(Head(items), b))
\* for (key, val) in map { add_key((key.len() + 3) / 4); analyze_value(val, breakdown) }
RECURSIVE analyze_fields(_, _, _)
analyze_fields(map, keys, b) ==
    IF keys = <<>> THEN b
    ELSE analyze_fields(map, Tail(keys),
             analyze_value(map[Head(keys)], add_key(b, (Len(Head(keys)) + 3) \div 4)))
\* for row in &table.rows { the fields of the row }
RECURSIVE analyze_rows(_, _)
analyze_rows(rows, b) ==
    IF rows = <<>> THEN b
    ELSE analyze_rows(Tail(rows), analyze_fields(Head(rows), Entries(Head(rows)), b))

analyze_value(value, b) ==
    CASE value.type \in {"Null", "Bool", "Number"} -> add_primitive(b, 1)
      [] value.type = "String" -> add_string(b, (Len(value.s) + 3) \div 4)
      [] value.type = "Array" -> analyze_items(value.items, add_structure(b, 1))
      [] value.type = "Object" ->
            analyze_fields(value.obj, Entries(value.obj),
                           add_structure(b, Cardinality(DOMAIN value.obj)))
      [] value.type = "Table" ->
            analyze_rows(value.rows,
                         add_table(b, (Len(value.name) + 3) \div 4, Len(value.rows)))

estimate_breakdown(value) == analyze_value(value, TokenBreakdownNew)

\* estimate with the total of the breakdown in the place of its own count
estimate_FromBreakdown(value) == total(estimate_breakdown(value))

\* (chars + 3) / 4
estimate(value) == (count_characters(value) + 3) \div 4

(* The trees handed to the estimator. *)

KeyId == <<"i", "d">>
EstimateLeaves ==
    { Null, Bool(TRUE), Bool(FALSE), One, Number(<<"finite", 12345, 0>>),
      Number(<<"finite", -15, -1>>), String(<<>>), Test }
EstimateTables == {GoodTable, EmptyTable, MixedTableU, ShortTable}
EstimateTrees ==
    EstimateLeaves \cup EstimateTables
        \cup Nested(KeyId, Containers({KeyA, KeyId}, EstimateLeaves \cup EstimateTables))

EstimateInit ==
    /\ tree \in EstimateTrees
    /\ verdict = NotCalled
    /\ issues = NotCalled
    /\ tokens = NotCalled
    /\ breakdown = NotCalled
    /\ sum = NotCalled

Estimate ==
    /\ tokens = NotCalled
    /\ tokens' = Returned(estimate(tree))
    /\ UNCHANGED <<breakdown, sum, parserVars, scalarVars, validatorVars, issues, report, format>>

EstimateBreakdown ==
    /\ breakdown = NotCalled
    /\ breakdown' = estimate_breakdown(tree)
    /\ UNCHANGED <<tokens, sum, parserVars, scalarVars, validatorVars, issues, report, format>>

\* TokenBreakdown::total on the breakdown at hand
Total ==
    /\ breakdown # NotCalled
    /\ sum = NotCalled
    /\ sum' = Returned(total(breakdown))
    /\ UNCHANGED <<tokens, breakdown, parserVars, scalarVars, validatorVars, issues, report,
                   format>>

InitEstimate == ParserIdle /\ ScalarIdle /\ EstimateInit /\ CommandIdle
NextEstimate == Estimate \/ EstimateBreakdown \/ Total
SpecEstimate == InitEstimate /\ [][NextEstimate]_vars

(* A TokenBreakdown built from its public fields, each up to MaxCount. *)

Breakdowns ==
    [keys : 0..MaxCount, strings : 0..MaxCount, primitives : 0..MaxCount,
     structure : 0..MaxCount, tables : 0..MaxCount, table_rows : 0..MaxCount]

BreakdownInit ==
    /\ breakdown \in Breakdowns
    /\ tokens = NotCalled
    /\ sum = NotCalled

InitBreakdown == ParserIdle /\ ScalarIdle /\ ValidatorIdle /\ BreakdownInit /\ CommandIdle
NextBreakdown == Total
SpecBreakdown == InitBreakdown /\ [][NextBreakdown]_vars

----------------------------------------------------------------------------
(* Properties of the token estimator, checked under SpecEstimate and        *)
(* SpecBreakdown.                                                           *)

\* the number of separators between n things
Separators(n) == IF n = 0 THEN 0 ELSE n - 1

\* the sum of f over the keys of a map
RECURSIVE OverKeys(_, _)
OverKeys(map, keys) ==
    IF keys = {} THEN 0
    ELSE LET k == CHOOSE x \in keys : TRUE
         IN  map[k] + OverKeys(map, keys \ {k})

\* the character count the claim gives
RECURSIVE Chars(_)
Chars(v) ==
    CASE v.type = "Null" -> 4
      [] v.type = "Bool" -> IF v.b THEN 4 ELSE 5
      [] v.type = "Number" -> Len(to_string(v.n))
      [] v.type = "String" -> Len(v.s) + 2
      [] v.type = "Array" ->
            2 + SumOf([i \in 1..Len(v.items) |-> Chars(v.items[i])])
              + 2 * Separators(Len(v.items))
      [] v.type = "Object" ->
            2 + OverKeys([k \in DOMAIN v.obj |-> Len(k) + 3 + Chars(v.obj[k])], DOMAIN v.obj)
              + 2 * Separators(Cardinality(DOMAIN v.obj))
      [] v.type = "Table" ->
            Len(v.name) + 10
              + SumOf([r \in 1..Len(v.rows) |->
                         2 + OverKeys([k \in DOMAIN v.rows[r] |->
                                          Len(k) + 2 + Chars(v.rows[r][k])],
                                      DOMAIN v.rows[r])])

\* ceil(n / 4): the least q with 4 * q >= n
CeilOfQuarter(n) == CHOOSE q \in 0..n : 4 * q >= n /\ \A p \in 0..(q - 1) : 4 * p < n

\* C17: estimate(v) is ceil(chars(v) / 4) for the character count the claim
\* gives; it is 1 for Null and for Bool(true), 2 for Bool(false), and at least 1
\* for every value.
C17_EstimateIsCeilOfQuarter ==
    tokens # NotCalled =>
        /\ tokens.value = CeilOfQuarter(Chars(tree))
        /\ tokens.value >= 1
        /\ tree \in {Null, Bool(TRUE)} => tokens.value = 1
        /\ tree = Bool(FALSE) => tokens.value = 2

\* C17 witness: an object of two fields, one of them a table with two rows, has
\* been estimated, and the character count is no multiple of 4
C17_Witness ==
    /\ tokens # NotCalled
    /\ tree.type = "Object"
    /\ Cardinality(DOMAIN tree.obj) = 2
    /\ \E k \in DOMAIN tree.obj : tree.obj[k] = MixedTableU
    /\ Chars(tree) % 4 # 0

\* C18: total() is keys + strings + primitives + structure + tables; table_rows
\* is no term of it, so breakdowns that differ in table_rows alone have one total.
C18_TotalSumsFiveBuckets ==
    sum # NotCalled =>
        sum.value = breakdown.keys + breakdown.strings + breakdown.primitives
                        + breakdown.structure + breakdown.tables

\* C18 witness: total was taken of a breakdown whose table_rows is not 0 and
\* whose other fields are not all 0
C18_Witness ==
    /\ sum # NotCalled
    /\ breakdown.table_rows > 0
    /\ sum.value > 0

\* C19: the total of estimate_breakdown and estimate are not equal on every
\* value: on Bool(false) the total is 1 and the estimate is 2.
C19_TotalIsNotEstimate ==
    (tree = Bool(FALSE) /\ tokens # NotCalled /\ sum # NotCalled) =>
        sum.value = 1 /\ tokens.value = 2

\* C19 witness: both were computed for Bool(false) and they differ
C19_Witness ==
    /\ tree = Bool(FALSE)
    /\ tokens # NotCalled
    /\ sum # NotCalled
    /\ breakdown = estimate_breakdown(tree)
    /\ sum.value # tokens.value

----------------------------------------------------------------------------
(* parser.rs: Parser::detect_format, called on every text of up to MaxLen   *)
(* characters of DetectAlphabet.                                            *)

detect_format_Untrimmed(input) ==
    IF starts_with(input, <<"{">>) \/ starts_with(input, <<"[">>) THEN "Json" ELSE "Toon"

detect_format(input) ==
    LET trimmed == trim(input) IN
    IF starts_with(trimmed, <<"{">>) \/ starts_with(trimmed, <<"[">>) THEN "Json" ELSE "Toon"

DetectAlphabet == {"{", "[", "}", "a", " ", "\n"}
DetectTexts == UNION {[1..n -> DetectAlphabet] : n \in 0..MaxLen}

DetectInit ==
    /\ text \in DetectTexts
    /\ scalar = NotCalled

DetectFormat ==
    /\ format = NotCalled
    /\ format' = Returned(detect_format(text))
    /\ UNCHANGED <<parserVars, scalarVars, validatorVars, issues, report, estimatorVars>>

InitDetect == ParserIdle /\ DetectInit /\ ValidatorIdle /\ EstimatorIdle /\ CommandIdle
NextDetect == DetectFormat
SpecDetect == InitDetect /\ [][NextDetect]_vars

(* Properties of detect_format, checked under SpecDetect. *)

\* the positions of the characters of t that are not whitespace
Visible(t) == {i \in 1..Len(t) : t[i] \notin Whitespace}

\* C20: detect_format returns Json exactly when the first character of the
\* input that is not whitespace is '{' or '[', and Toon otherwise, an empty or
\* all-whitespace input included; no other character of the input matters.
C20_JsonIffFirstCharOpens ==
    format # NotCalled =>
        LET opens == /\ Visible(text) # {}
                     /\ text[Least(Visible(text))] \in {"{", "["}
        IN  format.value = (IF opens THEN "Json" ELSE "Toon")

\* C20 witness: the text starts with whitespace, then '[', then a character
\* that opens nothing, and Json was returned
C20_Witness ==
    /\ format = Returned("Json")
    /\ Len(text) = 3
    /\ text[1] \in Whitespace
    /\ text[2] = "["
    /\ text[3] = "a"

----------------------------------------------------------------------------
(* Parser::parse on documents of table rows: up to MaxLines lines, each one *)
(* of RowLines. The catalogue holds rows that repeat a key, a field with an *)
(* empty value, and lines below a row that are indented deeper than its     *)
(* fields, a "- " line among them.                                          *)

RowLines ==
    { <<"t", "[", "0", "]", ":">>,
      <<"t", "[", "1", "]", ":">>,
      <<"t", "[", "2", "]", ":">>,
      Sp(2) \o <<"-", " ", "a", ":", " ", "1">>,
      Sp(2) \o <<"-", " ", "k", ":">>,
      Sp(4) \o <<"a", ":", " ", "2">>,
      Sp(4) \o <<"k", ":">>,
      Sp(4) \o <<"#", " ", "c">>,
      Sp(6) \o <<"d", ":", " ", "3">>,
      Sp(6) \o <<"-", " ", "b", ":", " ", "2">>,
      <<"a", ":", " ", "1">>,
      <<"a", ":", " ", "2">>,
      <<"t", ":", " ", "1">>,
      <<"k", ":">>,
      <<"k", ":", " ", "\"">>,
      <<"#", " ", "c">>,
      <<"j", "u", "n", "k">> }

RowDocuments == UNION {[1..n -> RowLines] : n \in 0..MaxLines}

RowsInit ==
    /\ lines \in RowDocuments
    /\ current = 0
    /\ stack = <<ParseValueFrame(0)>>
    /\ result = Running
    /\ spins = 0

InitRows == RowsInit /\ ScalarIdle /\ ValidatorIdle /\ EstimatorIdle /\ CommandIdle
NextRows == ParserNext
SpecRows == InitRows /\ [][NextRows]_vars

----------------------------------------------------------------------------
(* Properties of the cursor and of the table scan, checked under SpecRows.  *)

\* C21: the cursor current never decreases and stays within 0..lines.len()
\* from construction to the return of parse; it moves only past a line it
\* stands on (current < lines.len()), one line at a time.
C21_CursorMonotoneInBounds ==
    /\ [](current \in 0..Len(lines))
    /\ [][/\ current' >= current
          /\ current' # current => (current < Len(lines) /\ current' = current + 1)]_vars

\* C21 witness: parse has returned a tree with the cursor at the end of a
\* document of MaxLines lines, rows and fields among them
C21_Witness ==
    /\ result.status = "ok"
    /\ Len(lines) = MaxLines
    /\ current = Len(lines)
    /\ \E t \in TablesOf(result.value) : Len(t.rows) = 1

\* the frames of parse_table on the call stack
TableFrames == {i \in 1..Len(stack) : stack[i].fn = "parse_table"}

\* parse_table has collected the declared number of rows
RowsComplete ==
    /\ Active("parse_table")
    /\ Len(Top.rows) = Top.declared_rows

\* C22: parse_table never holds more than declared_rows rows; once it holds
\* declared_rows rows (at once when the header declares 0) it consumes no
\* further line and returns the table; and a TableRowMismatch of the parser
\* reports fewer rows than declared.
C22_NeverMoreThanDeclaredRows ==
    /\ [](\A i \in TableFrames : Len(stack[i].rows) <= stack[i].declared_rows)
    /\ [](result.status = "err" /\ result.error.kind = "TableRowMismatch"
              => result.error.actual < result.error.declared)
    /\ [][RowsComplete =>
             /\ current' = current
             /\ Len(stack') = Len(stack) - 1
             /\ result' = Running]_vars

\* C22 witness: a table of one declared row holds its row and stands before a
\* further row line
C22_Witness ==
    /\ RowsComplete
    /\ Top.declared_rows = 1
    /\ HasLine
    /\ LineIndent = ExpectedIndent(Top.parent_indent)
    /\ IsRowMarker(Trimmed)

----------------------------------------------------------------------------
(* Properties of parse_table_row, checked under SpecRows.                   *)

\* parse_table_row stands at a line that is neither blank nor a comment
AtRowLine ==
    /\ Active("parse_table_row")
    /\ HasLine
    /\ ~IsBlankOrComment(Trimmed)

\* the step consumes the line and leaves the row and the rows as they are
ConsumedUnread ==
    /\ current' = current + 1
    /\ stack' = stack

\* the step adds the line's field to the row
FieldAdded ==
    /\ current' = current + 1
    /\ Len(stack') = Len(stack)
    /\ stack'[Len(stack)].row = insert(Top.row, parse_key_value(Trimmed).key,
                                                parse_key_value(Trimmed).value)

\* the scan of the row ends at the line
RowScanStops ==
    /\ current' = current
    /\ Len(stack') = Len(stack) - 1

\* C23 (as claimed): in parse_table_row at field indent f, a line indented
\* deeper than f is consumed without adding a field or starting a row, a
\* key: value line at exactly f adds its field, and the scan stops without
\* consuming on a "- " line, on a line indented less than f, and on a line at
\* f that is no key: value.
C23_DeeperLinesSkipped ==
    [][AtRowLine =>
         IF LineIndent > Top.indent THEN ConsumedUnread
         ELSE IF LineIndent < Top.indent \/ IsRowMarker(Trimmed) THEN RowScanStops
         ELSE IF parse_key_value(Trimmed).some THEN FieldAdded
         ELSE RowScanStops]_vars

----------------------------------------------------------------------------
(* Properties of inline array literals, checked under SpecScalar.           *)

\* the text between the brackets of an array literal, and its commas
Interior(trimmed) == Slice(trimmed, 1, Len(trimmed) - 1)
Commas(s) == Cardinality({i \in 1..Len(s) : s[i] = ","})

\* C24 (as claimed): an inline array literal is split at every comma of its
\* interior, so an interior with k commas yields an Array of exactly k + 1
\* elements, "[]" yields the one-element Array of the empty String, and no
\* call yields an empty Array.
C24_ArraySplitAtEveryComma ==
    scalar # NotCalled =>
        /\ scalar # Array(<<>>)
        /\ IsBracketed(trim(text)) =>
              /\ scalar.type = "Array"
              /\ Len(scalar.items) = Commas(Interior(trim(text))) + 1
        /\ trim(text) = <<"[", "]">> => scalar = Array(<<String(<<>>)>>)

----------------------------------------------------------------------------
(* Properties of repeated keys, checked under SpecRows.                     *)

\* a line of the root object that binds a key at once: a key: value line, or
\* the header of a table of no rows
IsEmptyTableHeader(line) ==
    /\ parse_table_header(trim(line)).some
    /\ parse_table_header(trim(line)).num = 0
IsFlatLine(line) ==
    /\ count_indent(line) = 0
    /\ ~IsBlankOrComment(trim(line))
    /\ IF parse_table_header(trim(line)).some THEN IsEmptyTableHeader(line)
       ELSE /\ parse_key_value(trim(line)).some
            /\ parse_key_value(trim(line)).value # Panic
FlatBinding(line) ==
    LET header == parse_table_header(trim(line)) IN
    IF header.some THEN [key |-> header.name, value |-> Table(header.name, 0, <<>>)]
    ELSE [key |-> parse_key_value(trim(line)).key, value |-> parse_key_value(trim(line)).value]
IsFlatDocument == \A i \in 1..Len(lines) : IsFlatLine(lines[i])

\* a table of one row: its header, a "- key: value" line, and key: value lines
\* at the field indent
IsRowDocument ==
    /\ Len(lines) >= 2
    /\ count_indent(lines[1]) = 0
    /\ parse_table_header(trim(lines[1])).some
    /\ parse_table_header(trim(lines[1])).num = 1
    /\ count_indent(lines[2]) = ExpectedIndent(0)
    /\ IsRowMarker(trim(lines[2]))
    /\ parse_key_value(SliceFrom(trim(lines[2]), 2)).some
    /\ \A i \in 3..Len(lines) :
          /\ count_indent(lines[i]) = FieldIndent(0)
          /\ ~IsBlankOrComment(trim(lines[i]))
          /\ ~IsRowMarker(trim(lines[i]))
          /\ parse_key_value(trim(lines[i])).some
RowBinding(i) ==
    LET kv == parse_key_value(IF i = 2 THEN SliceFrom(trim(lines[2]), 2) ELSE trim(lines[i]))
    IN  [key |-> kv.key, value |-> kv.value]

\* the mapping a sequence of bindings leaves: every key once, with the value
\* of its last occurrence
Last(S) == CHOOSE i \in S : \A j \in S : j <= i
LastBindings(bindings) ==
    [k \in {bindings[i].key : i \in 1..Len(bindings)} |->
        bindings[Last({i \in 1..Len(bindings) : bindings[i].key = k})].value]

\* C25: keys that occur several times in one object scope, as key: value lines
\* or as table headers of that name, or in one table row, are no error; the
\* mapping holds every distinct key once, bound to the value of its last
\* occurrence.
C25_LastDuplicateKeyWins ==
    /\ IsFlatDocument /\ result # Running =>
          result = Ok(Object(LastBindings([i \in 1..Len(lines) |-> FlatBinding(lines[i])])))
    /\ IsRowDocument /\ result # Running =>
          LET t == parse_table_header(trim(lines[1])).name
              row == LastBindings([i \in 1..(Len(lines) - 1) |-> RowBinding(i + 1)])
          IN  result = Ok(Object(insert(EmptyMap, t, Table(t, 1, <<row>>))))

\* C25 witness: parse has returned the object of three lines of the root
\* object whose first and last bind the same key to different values
C25_Witness ==
    /\ result.status = "ok"
    /\ IsFlatDocument
    /\ Len(lines) = 3
    /\ FlatBinding(lines[1]).key = FlatBinding(lines[3]).key
    /\ FlatBinding(lines[1]).value # FlatBinding(lines[3]).value
    /\ FlatBinding(lines[2]).key # FlatBinding(lines[1]).key

----------------------------------------------------------------------------
(* Properties of estimate_breakdown, checked under SpecEstimate.            *)

Buckets == {"keys", "strings", "primitives", "structure", "tables", "table_rows"}

\* the cells of the rows of a table, row after row
RECURSIVE Cells(_)
Cells(rows) ==
    IF rows = <<>> THEN <<>>
    ELSE [i \in 1..Cardinality(DOMAIN Head(rows)) |-> Head(rows)[Entries(Head(rows))[i]]]
            \o Cells(Tail(rows))

\* the values a node holds, the fields of an object in the reverse of the
\* order the estimator visits them in
Children(v) ==
    CASE v.type = "Array" -> v.items
      [] v.type = "Object" ->
            LET n == Cardinality(DOMAIN v.obj) IN
            [i \in 1..n |-> v.obj[Entries(v.obj)[n + 1 - i]]]
      [] v.type = "Table" -> Cells(v.rows)
      [] OTHER -> <<>>

\* what the keys of a map add to the keys bucket
KeyCost(map) ==
    SumOf([i \in 1..Cardinality(DOMAIN map) |-> CeilOfQuarter(Len(Entries(map)[i]))])

\* what a node adds to a bucket by itself
NodeCost(v, bucket) ==
    CASE v.type \in {"Null", "Bool", "Number"} -> IF bucket = "primitives" THEN 1 ELSE 0
      [] v.type = "String" -> IF bucket = "strings" THEN CeilOfQuarter(Len(v.s)) ELSE 0
      [] v.type = "Array" -> IF bucket = "structure" THEN 1 ELSE 0
      [] v.type = "Object" ->
            CASE bucket = "structure" -> Cardinality(DOMAIN v.obj)
              [] bucket = "keys" -> KeyCost(v.obj)
              [] OTHER -> 0
      [] v.type = "Table" ->
            CASE bucket = "tables" -> CeilOfQuarter(Len(v.name))
              [] bucket = "table_rows" -> Len(v.rows)
              [] bucket = "keys" -> SumOf([i \in 1..Len(v.rows) |-> KeyCost(v.rows[i])])
              [] OTHER -> 0

\* the node's own cost and the costs of what it holds
RECURSIVE Cost(_, _)
Cost(v, bucket) ==
    NodeCost(v, bucket)
        + SumOf([i \in 1..Len(Children(v)) |-> Cost(Children(v)[i], bucket)])

\* C26: estimate_breakdown is additive: a primitive adds 1 to primitives, a
\* String ceil(len / 4) to strings, an Array 1 to structure, an Object its
\* field count to structure and ceil(len / 4) per key to keys, a Table
\* ceil(name len / 4) to tables, rows.len() to table_rows and ceil(len / 4)
\* per row field to keys; the breakdown of a container is its own cost plus
\* the breakdowns of what it holds, in whatever order.
C26_BreakdownAdditive ==
    breakdown # NotCalled => breakdown = [bucket \in Buckets |-> Cost(tree, bucket)]

\* C26 witness: the breakdown of an object of two fields, one of them a table
\* declared with one row that holds none
C26_Witness ==
    /\ breakdown # NotCalled
    /\ tree.type = "Object"
    /\ Cardinality(DOMAIN tree.obj) = 2
    /\ \E k \in DOMAIN tree.obj : tree.obj[k] = ShortTable
    /\ breakdown.table_rows = 0
    /\ breakdown.structure = 2

----------------------------------------------------------------------------
(* Properties of the shape of parsed trees, checked under SpecRows.         *)

CellTypes == {"Null", "Bool", "Number", "String", "Array"}

\* every table of the tree is the value of an object field named as the table
RECURSIVE TablesUnderOwnName(_)
TablesUnderOwnName(v) ==
    CASE v.type = "Object" ->
            \A k \in DOMAIN v.obj :
                IF v.obj[k].type = "Table" THEN v.obj[k].name = k
                ELSE TablesUnderOwnName(v.obj[k])
      [] v.type = "Array" -> \A i \in 1..Len(v.items) : TablesUnderOwnName(v.items[i])
      [] v.type = "Table" -> FALSE
      [] OTHER -> TRUE

\* the cells of the table are scalars and arrays that hold no table
ScalarCells(table) ==
    \A i \in 1..Len(table.rows) : \A k \in DOMAIN table.rows[i] :
        /\ table.rows[i][k].type \in CellTypes
        /\ TablesOf(table.rows[i][k]) = {}

\* the text of a field with nothing after its ':'
IsEmptyField(field) ==
    /\ parse_key_value(field).some
    /\ is_empty(ValuePortion(field))

\* parse_table_row stands at a line indented deeper than the fields, right
\* below a field of the row that has an empty value
BelowEmptyField ==
    /\ AtRowLine
    /\ LineIndent > Top.indent
    /\ current >= 1
    /\ LET above == trim(lines[current]) IN
       IF IsRowMarker(above) THEN IsEmptyField(SliceFrom(above, 2))
       ELSE count_indent(lines[current]) = Top.indent /\ IsEmptyField(above)

\* C27 (as claimed): in every tree parse returns the cells of table rows are
\* Null, Bool, Number, String or Array values and every Table is the direct
\* value of an object field named as the table; inside a row a key: line with
\* an empty value yields Null, and the lines nested below it are consumed
\* without being interpreted.
C27_RowCellsAreScalars ==
    /\ [](result.status = "ok" =>
             /\ TablesUnderOwnName(result.value)
             /\ \A t \in TablesOf(result.value) : ScalarCells(t))
    /\ [][/\ InTableLoop /\ IsRowMarker(Trimmed) /\ IsEmptyField(AfterDash) =>
                /\ Len(stack') = Len(stack) + 1
                /\ stack'[Len(stack)].row = insert(EmptyMap, parse_key_value(AfterDash).key, Null)
          /\ AtRowLine /\ LineIndent = Top.indent /\ ~IsRowMarker(Trimmed)
                /\ IsEmptyField(Trimmed) =>
                /\ FieldAdded
                /\ parse_key_value(Trimmed).value = Null
          /\ BelowEmptyField => ConsumedUnread]_vars

====
